---- MODULE Spec2Model ----
(***************************************************************************)
(* A model of the GitHub Blog Sync plugin (src/main.ts): the SyncBlog      *)
(* flow (status -> add/remove -> commit -> push) over a git repository,    *)
(* the two triggers that start it, and the settings form.                  *)
(*                                                                         *)
(* The git library is modelled by its documented contract:                 *)
(*   statusMatrix yields one row <<filepath, HEAD, WORKDIR, STAGE>> for     *)
(*     every file that is in HEAD, in the working directory or in the      *)
(*     index (unchanged files included);                                   *)
(*   add copies the working-tree file into the index, remove deletes the   *)
(*     index entry;                                                        *)
(*   commit snapshots the index on top of the branch head, whether or not  *)
(*     the tree differs from the parent's;                                 *)
(*   push brings the remote branch up to the local head.                   *)
(* Every library call may also fail (I/O, lock, network, credentials):     *)
(* each has a resolve and a reject action.                                 *)
(***************************************************************************)
EXTENDS Integers, Sequences, FiniteSets, TLC

\* ------------------------------------------------------------- bounds

\* SyncBlog invocations (trigger activations) in one run.
MaxInv == 2
\* SyncBlog invocations in one run with the settings form in use.
MaxFormInv == 1
\* Edits made in the settings form in one run.
MaxEdits == 1

Inv == 1..MaxInv

\* ---------------------------------------------------------- constants

\* Display time of a failure notice (the second argument of Notice).
FailureNoticeMs == 10000
\* Notice without a duration: the host's default.
DefaultNoticeMs == 0

NoiseToken == ".DS_Store"
Branch == "main"

\* File paths are sequences of name fragments, relative to a subdirectory.
PublicFiles == { <<"index.html">>, <<"feed.xml">>, <<NoiseToken>> }
ContentFiles == { <<"post.md">>, <<"img/", NoiseToken>> }
FilesOf(sub) == IF sub = "public" THEN PublicFiles ELSE ContentFiles

\* filepath.includes(token)
Includes(filepath, token) == \E k \in DOMAIN filepath : filepath[k] = token

\* path.join(sub, filepath)
Join(sub, filepath) == <<sub>> \o filepath

RepoPaths == { Join("public", f) : f \in PublicFiles }
               \cup { Join("content", f) : f \in ContentFiles }

\* File contents: 0 is "no such file", 1 and 2 are two versions.
Absent == 0

Fields == { "githubUsername", "githubRepoUrl", "githubPersonalAccessToken",
            "gitDirLocation", "nameOfCommit", "emailOfCommit" }
FieldValues == { "", "x" }

DEFAULT_SETTINGS == [ f \in Fields |-> "" ]

VARIABLES
    settings,   \* this.settings
    data,       \* the host's persisted plugin data (loadData / saveData)
    worktree,   \* the files of the working tree: RepoPaths -> content
    index,      \* the git index: RepoPaths -> content
    commits,    \* the history of the local branch, oldest first
    remote,     \* how many commits of that history the remote has
    pc,         \* where each invocation is
    cfg,        \* the constants NAME, EMAIL, PAT, REPO, dir of each invocation
    pending,    \* the add/remove promises of each invocation not yet settled
    ret,        \* what each invocation returned
    notices,    \* the notices each invocation has shown, in order
    calls,      \* history: every git call issued
    rows,       \* history: the status rows each invocation was given
    settled,    \* history: add/remove calls that settled
    atStart,    \* history: what held when each invocation started
    edits       \* history: number of settings edits so far

vars == << settings, data, worktree, index, commits, remote, pc, cfg, pending,
           ret, notices, calls, rows, settled, atStart, edits >>

repoVars == << worktree, index, commits, remote >>
invVars == << pc, cfg, pending, ret, notices >>
histVars == << calls, rows, settled, atStart >>


\* ------------------------------------------------------------ helpers

\* What loadData() can yield: nothing saved yet, or a saved record.
NoData == [ f \in {} |-> "" ]
SavedData == { NoData, [ f \in Fields |-> "x" ] }

\* Object.assign({}, DEFAULT_SETTINGS, loaded)
Assign(defaults, loaded) ==
    [ f \in Fields |-> IF f \in DOMAIN loaded THEN loaded[f] ELSE defaults[f] ]

\* The constants SyncBlog reads from the settings as it starts.
ReadCfg(s) ==
    [ NAME  |-> s.nameOfCommit,
      EMAIL |-> s.emailOfCommit,
      PAT   |-> s.githubPersonalAccessToken,
      REPO  |-> s.githubRepoUrl,
      DIR   |-> s.gitDirLocation ]

NoCfg == ReadCfg(DEFAULT_SETTINGS)

\* The tree of the branch head.
HeadTree == commits[Len(commits)].tree

\* git.statusMatrix for one subdirectory: a row <<filepath, HEAD, WORKDIR, STAGE>>
\* for every file that is in HEAD, the working tree or the index.
StatusRow(sub, f) ==
    LET p == Join(sub, f)
        h == HeadTree[p]
        w == worktree[p]
        s == index[p]
    IN  << f,
           IF h = Absent THEN 0 ELSE 1,
           IF w = Absent THEN 0 ELSE IF w = h THEN 1 ELSE 2,
           IF s = Absent THEN 0 ELSE IF s = h THEN 1 ELSE IF s = w THEN 2 ELSE 3 >>

StatusMatrix(sub) ==
    { StatusRow(sub, f) : f \in { g \in FilesOf(sub) :
          \/ HeadTree[Join(sub, g)] # Absent
          \/ worktree[Join(sub, g)] # Absent
          \/ index[Join(sub, g)] # Absent } }

\* The callback of status.map: ([filepath, , worktreeStatus]) => ...
\* The result is the set of calls it issues for the row (none, or one).
StageCall_Swapped(sub, row) ==
    IF Includes(row[1], NoiseToken)
    THEN {}
    ELSE { [ fn   |-> IF row[3] # 0 THEN "remove" ELSE "add",
             path |-> Join(sub, row[1]) ] }

StageCall_AddOnly(sub, row) ==
    IF Includes(row[1], NoiseToken)
    THEN {}
    ELSE { [ fn |-> "add", path |-> Join(sub, row[1]) ] }

StageCall_NoFilter(sub, row) ==
    { [ fn   |-> IF row[3] # 0 THEN "add" ELSE "remove",
        path |-> Join(sub, row[1]) ] }

StageCall(sub, row) ==
    IF Includes(row[1], NoiseToken)
    THEN {}
    ELSE { [ fn   |-> IF row[3] # 0 THEN "add" ELSE "remove",
             path |-> Join(sub, row[1]) ] }

StageCalls(sub, status) == UNION { StageCall(sub, row) : row \in status }

\* Promise.all over the calls of one subdirectory: fulfilled once none of
\* them is left unsettled (and none rejected: see OpReject).
PromiseAny(left) == TRUE

PromiseAll(left) == left = {}

\* git.add / git.remove on the index.
GitApply(op, idx) ==
    [ idx EXCEPT ![op.path] = IF op.fn = "add" THEN worktree[op.path] ELSE Absent ]

\* git.commit: a new commit of the index on top of the branch.
GitCommit_Orphan(history, tree, c, i) ==
    << [ tree |-> tree, name |-> c.NAME, email |-> c.EMAIL, by |-> i ] >>

GitCommit(history, tree, c, i) ==
    Append(history, [ tree |-> tree, name |-> c.NAME, email |-> c.EMAIL, by |-> i ])

\* Records of the history variables and of the notices.
Call(i, fn, path, c) == [ by |-> i, fn |-> fn, path |-> path, cfg |-> c ]

Err(fn, path) == [ fn |-> fn, at |-> path ]
NoValue == Err("", <<>>)

Notice(msg, arg, ms) == [ msg |-> msg, arg |-> arg, ms |-> ms ]
StartNotice == Notice("Will push to repository", NoValue, DefaultNoticeMs)
StagingPrefix == "Couldn't add updated files. Problem: "
CommitPrefix == "Couldn't commit changes to the branch. Problem: "
PushPrefix == "Couldn't push changes to the repository. Problem: "
SuccessPrefix == "GitHub Blog Sync: Pushed to "

StagePcs == { "stagePublic", "stageContent" }
StatusPcs == { "statusPublic", "statusContent" }
SubOf(p) == IF p \in { "statusPublic", "stagePublic" } THEN "public" ELSE "content"

\* The invocation ended in its push's catch block.
PushFailed(i) ==
    /\ pc[i] = "failed"
    /\ notices[i][Len(notices[i])].msg = PushPrefix

\* No watched path differs between the working tree, the index and HEAD.
CleanTree == \A p \in RepoPaths : worktree[p] = index[p] /\ index[p] = HeadTree[p]


\* ----------------------------------------------------------- SyncBlog

\* NAME, EMAIL, PAT, REPO and dir are constants of the invocation.
Consts_Live(i) == ReadCfg(settings)

Consts(i) == cfg[i]

Say(i, n) == [ notices EXCEPT ![i] = Append(@, n) ]

\* catch (e) of the staging try block: notice, return e.
CatchStaging_NoReturn(i, e, issued) ==
    /\ notices' = Say(i, Notice(StagingPrefix, e, FailureNoticeMs))
    /\ ret' = ret
    /\ pc' = [ pc EXCEPT ![i] = "commit" ]
    /\ calls' = issued \cup { Call(i, "commit", <<Branch>>, Consts(i)) }

CatchStaging(i, e, issued) ==
    /\ notices' = Say(i, Notice(StagingPrefix, e, FailureNoticeMs))
    /\ ret' = [ ret EXCEPT ![i] = e ]
    /\ pc' = [ pc EXCEPT ![i] = "failed" ]
    /\ calls' = issued

\* catch (e) of the commit try block.
CatchCommit_NoReturn(i, e) ==
    /\ notices' = Say(i, Notice(CommitPrefix, e, FailureNoticeMs))
    /\ ret' = ret
    /\ pc' = [ pc EXCEPT ![i] = "push" ]
    /\ calls' = calls \cup { Call(i, "push", <<>>, Consts(i)) }

CatchCommit(i, e) ==
    /\ notices' = Say(i, Notice(CommitPrefix, e, FailureNoticeMs))
    /\ ret' = [ ret EXCEPT ![i] = e ]
    /\ pc' = [ pc EXCEPT ![i] = "failed" ]
    /\ calls' = calls

\* catch (e) of the push try block.
CatchPush_NoReturn(i, e) ==
    /\ notices' = [ notices EXCEPT ![i] =
                      @ \o << Notice(PushPrefix, e, FailureNoticeMs),
                              Notice(SuccessPrefix, Err("repo", <<Consts(i).REPO>>),
                                     DefaultNoticeMs) >> ]
    /\ ret' = ret
    /\ pc' = [ pc EXCEPT ![i] = "done" ]
    /\ calls' = calls

CatchPush(i, e) ==
    /\ notices' = Say(i, Notice(PushPrefix, e, FailureNoticeMs))
    /\ ret' = [ ret EXCEPT ![i] = e ]
    /\ pc' = [ pc EXCEPT ![i] = "failed" ]
    /\ calls' = calls

\* What follows the await of one subdirectory's Promise.all: the status of
\* the next subdirectory, or the commit.
AfterStage(i, sub, issued) ==
    /\ notices' = notices
    /\ ret' = ret
    /\ IF sub = "public"
       THEN /\ pc' = [ pc EXCEPT ![i] = "statusContent" ]
            /\ calls' = issued \cup { Call(i, "statusMatrix", <<"content">>, Consts(i)) }
       ELSE /\ pc' = [ pc EXCEPT ![i] = "commit" ]
            /\ calls' = issued \cup { Call(i, "commit", <<Branch>>, Consts(i)) }

\* SyncBlog up to its first await: the start notice, the constants, and the
\* status of 'public' requested.
SyncBlog(i) ==
    /\ pc[i] = "idle"
    /\ \A j \in Inv : j < i => pc[j] # "idle"
    /\ notices' = Say(i, StartNotice)
    /\ cfg' = [ cfg EXCEPT ![i] = ReadCfg(settings) ]
    /\ pc' = [ pc EXCEPT ![i] = "statusPublic" ]
    /\ calls' = calls \cup { Call(i, "statusMatrix", <<"public">>, ReadCfg(settings)) }
    /\ atStart' = [ atStart EXCEPT ![i] =
                      [ settings |-> settings,
                        clean    |-> CleanTree,
                        pushFailed |-> { j \in Inv : PushFailed(j) } ] ]
    /\ UNCHANGED << settings, data, repoVars, pending, ret, rows, settled, edits >>

\* The ribbon icon's callback.
RibbonClick == \E i \in Inv : SyncBlog(i)

\* The command's callback.
CommandCallback == \E i \in Inv : SyncBlog(i)

\* statusMatrix fulfils: the .then callback maps every row to its call and
\* hands them to Promise.all.
StatusResolve(i) ==
    /\ pc[i] \in StatusPcs
    /\ LET sub    == SubOf(pc[i])
           status == StatusMatrix(sub)
           ops    == StageCalls(sub, status)
           issued == calls \cup { Call(i, op.fn, op.path, Consts(i)) : op \in ops }
       IN  /\ rows' = [ rows EXCEPT ![i] = @ \cup { [ sub |-> sub, row |-> r ] : r \in status } ]
           /\ pending' = [ pending EXCEPT ![i] = @ \cup ops ]
           /\ IF PromiseAll(ops)
              THEN AfterStage(i, sub, issued)
              ELSE /\ pc' = [ pc EXCEPT ![i] =
                                IF sub = "public" THEN "stagePublic" ELSE "stageContent" ]
                   /\ calls' = issued
                   /\ UNCHANGED << notices, ret >>
    /\ UNCHANGED << settings, data, repoVars, cfg, settled, atStart, edits >>

\* statusMatrix rejects.
StatusReject(i) ==
    /\ pc[i] \in StatusPcs
    /\ CatchStaging(i, Err("statusMatrix", <<SubOf(pc[i])>>), calls)
    /\ UNCHANGED << settings, data, repoVars, cfg, pending, rows, settled, atStart, edits >>

\* One git.add / git.remove fulfils.
OpResolve(i, op) ==
    /\ op \in pending[i]
    /\ index' = GitApply(op, index)
    /\ pending' = [ pending EXCEPT ![i] = @ \ { op } ]
    /\ settled' = settled \cup { [ by |-> i, fn |-> op.fn, path |-> op.path, ok |-> TRUE,
                                   late |-> pc[i] = "failed" /\ index' # index ] }
    /\ IF pc[i] \in StagePcs /\ PromiseAll(pending'[i])
       THEN AfterStage(i, SubOf(pc[i]), calls)
       ELSE UNCHANGED << pc, calls, notices, ret >>
    /\ UNCHANGED << settings, data, worktree, commits, remote, cfg, rows, atStart, edits >>

\* One git.add / git.remove rejects: Promise.all rejects with it, unless it
\* has rejected already.
OpReject(i, op) ==
    /\ op \in pending[i]
    /\ pending' = [ pending EXCEPT ![i] = @ \ { op } ]
    /\ settled' = settled \cup { [ by |-> i, fn |-> op.fn, path |-> op.path, ok |-> FALSE,
                                   late |-> FALSE ] }
    /\ IF pc[i] \in StagePcs
       THEN CatchStaging(i, Err(op.fn, op.path), calls)
       ELSE UNCHANGED << pc, calls, notices, ret >>
    /\ UNCHANGED << settings, data, repoVars, cfg, rows, atStart, edits >>

\* git.commit fulfils; the push is requested.
CommitResolve(i) ==
    /\ pc[i] = "commit"
    /\ commits' = GitCommit(commits, index, Consts(i), i)
    /\ pc' = [ pc EXCEPT ![i] = "push" ]
    /\ calls' = calls \cup { Call(i, "push", <<>>, Consts(i)) }
    /\ UNCHANGED << settings, data, worktree, index, remote, cfg, pending, ret, notices,
                    rows, settled, atStart, edits >>

\* git.commit rejects.
CommitReject(i) ==
    /\ pc[i] = "commit"
    /\ CatchCommit(i, Err("commit", <<Branch>>))
    /\ UNCHANGED << settings, data, repoVars, cfg, pending, rows, settled, atStart, edits >>

\* git.push fulfils; the success notice.
PushResolve(i) ==
    /\ pc[i] = "push"
    /\ remote' = Len(commits)
    /\ notices' = Say(i, Notice(SuccessPrefix, Err("repo", <<Consts(i).REPO>>),
                                DefaultNoticeMs))
    /\ pc' = [ pc EXCEPT ![i] = "done" ]
    /\ UNCHANGED << settings, data, worktree, index, commits, cfg, pending, ret, calls,
                    rows, settled, atStart, edits >>

\* git.push rejects.
PushReject(i) ==
    /\ pc[i] = "push"
    /\ CatchPush(i, Err("push", <<Consts(i).REPO>>))
    /\ UNCHANGED << settings, data, repoVars, cfg, pending, rows, settled, atStart, edits >>

\* ----------------------------------------------------------- settings

\* onChange of one text field of the settings tab, with saveSettings().
SettingChange(f, value) ==
    /\ edits < MaxEdits
    /\ value # settings[f]
    /\ settings' = [ settings EXCEPT ![f] = value ]
    /\ data' = settings'
    /\ edits' = edits + 1
    /\ UNCHANGED << repoVars, invVars, histVars >>

\* ------------------------------------------------------ specification

\* How a file can stand as the plugin loads, <<content in HEAD, content in
\* the working tree>>. The index starts equal to HEAD.
Unchanged == <<1, 1>>
ChangedStates == { <<0, 1>>, <<1, 0>>, <<1, 2>> }   \* new, deleted, modified

NoiseFiles == { p \in RepoPaths : Includes(p, NoiseToken) }

\* The repositories a run starts from: the clean one, and those in which one
\* file and the noise files are new, deleted or modified.
Repositories ==
    { [ p \in RepoPaths |-> Unchanged ] }
    \cup { [ p \in RepoPaths |-> IF p = q \/ p \in NoiseFiles THEN st ELSE Unchanged ] :
             q \in RepoPaths \ NoiseFiles, st \in ChangedStates }

\* A repository with one modified file and nothing else.
SmallRepositories ==
    { [ p \in RepoPaths |-> IF p = Join("public", <<"index.html">>) THEN <<1, 2>> ELSE <<0, 0>> ] }

NotStarted == [ settings |-> DEFAULT_SETTINGS, clean |-> FALSE, pushFailed |-> {} ]

InitOver(repos, saved) ==
    /\ data \in saved
    /\ settings = Assign(DEFAULT_SETTINGS, data)
    /\ \E st \in repos :
          /\ worktree = [ p \in RepoPaths |-> st[p][2] ]
          /\ index = [ p \in RepoPaths |-> st[p][1] ]
          /\ commits = << [ tree |-> [ p \in RepoPaths |-> st[p][1] ],
                            name |-> "", email |-> "", by |-> 0 ] >>
    /\ remote = 1
    /\ pc = [ i \in Inv |-> "idle" ]
    /\ cfg = [ i \in Inv |-> NoCfg ]
    /\ pending = [ i \in Inv |-> {} ]
    /\ ret = [ i \in Inv |-> NoValue ]
    /\ notices = [ i \in Inv |-> <<>> ]
    /\ calls = {}
    /\ rows = [ i \in Inv |-> {} ]
    /\ settled = {}
    /\ atStart = [ i \in Inv |-> NotStarted ]
    /\ edits = 0

\* The sync flow over the repositories, the settings left alone.
Init == InitOver(Repositories, { [ f \in Fields |-> "x" ] })

Next ==
    \/ RibbonClick
    \/ CommandCallback
    \/ \E i \in Inv : StatusResolve(i)
    \/ \E i \in Inv : StatusReject(i)
    \/ \E i \in Inv : \E op \in pending[i] : OpResolve(i, op)
    \/ \E i \in Inv : \E op \in pending[i] : OpReject(i, op)
    \/ \E i \in Inv : CommitResolve(i)
    \/ \E i \in Inv : CommitReject(i)
    \/ \E i \in Inv : PushResolve(i)
    \/ \E i \in Inv : PushReject(i)

Spec == Init /\ [][Next]_vars

\* The sync flow with the settings form in use.
InitForm == InitOver(SmallRepositories, SavedData)

NextForm ==
    \/ Next /\ \A i \in Inv : i > MaxFormInv => pc'[i] = "idle"
    \/ \E f \in Fields : \E value \in FieldValues : SettingChange(f, value)

SpecForm == InitForm /\ [][NextForm]_vars


\* ------------------------------------------------------------- claims

CallsBy(i, fns) == { c \in calls : c.by = i /\ c.fn \in fns }
StageFns == { "add", "remove" }
GitFns == { "statusMatrix", "add", "remove", "commit", "push" }
CommitsBy(i) == { k \in DOMAIN commits : commits[k].by = i }
HasNotice(i, prefix) == \E k \in DOMAIN notices[i] : notices[i][k].msg = prefix
FailurePrefixes == { StagingPrefix, CommitPrefix, PushPrefix }
IsNoise(filepath) == Includes(filepath, NoiseToken)
InFlight(i) == pc[i] \notin { "idle", "done", "failed" }
ReportedPaths(i) == { Join(r.sub, r.row[1]) : r \in { q \in rows[i] : ~IsNoise(q.row[1]) } }

C2_Original ==
    \A j \in Inv : \A i \in atStart[j].pushFailed :
        /\ CommitsBy(i) # {}
        /\ CommitsBy(j) = {}
        /\ ~HasNotice(j, CommitPrefix)

\* C2, amended: the commit of an invocation whose push failed stays in the
\* local history and the push failure is reported and returned; a later
\* invocation reaches the push step only with a new commit of its own on top
\* of it, and once that invocation is Done the remote has both commits.
C2_RetryCommitsAgain ==
    /\ \A i \in Inv : PushFailed(i) =>
          /\ CommitsBy(i) # {}
          /\ ret[i] = Err("push", <<cfg[i].REPO>>)
          /\ notices[i][Len(notices[i])] = Notice(PushPrefix, ret[i], FailureNoticeMs)
    /\ \A j \in Inv : \A i \in atStart[j].pushFailed :
          /\ CommitsBy(i) # {}
          /\ CallsBy(j, { "push" }) # {} =>
                \E kj \in CommitsBy(j) : \A ki \in CommitsBy(i) : ki < kj
          /\ pc[j] = "done" => \A k \in CommitsBy(i) \cup CommitsBy(j) : k <= remote

\* An invocation started after another's push had failed is Done.
C2_Witness ==
    \E j \in Inv : \E i \in atStart[j].pushFailed :
        /\ pc[j] = "done"
        /\ \A c \in CallsBy(j, StageFns) : \E t \in settled : t.by = j /\ t.path = c.path /\ t.ok

\* C3: when an invocation is Done, every reported path without the noise
\* token was staged with add if the file is in the working tree and with
\* remove if it is not, and the commit's tree holds the path exactly when
\* the working tree does.
C3_StagedAsFound ==
    \A i \in Inv : pc[i] = "done" =>
        /\ CommitsBy(i) # {}
        /\ \A p \in ReportedPaths(i) :
              /\ { c.fn : c \in { d \in CallsBy(i, StageFns) : d.path = p } }
                   = { IF worktree[p] # Absent THEN "add" ELSE "remove" }
              /\ \A k \in CommitsBy(i) :
                    commits[k].tree[p] # Absent <=> worktree[p] # Absent

\* A Done invocation that removed a deleted file from the index.
C3_Witness ==
    \E i \in Inv :
        /\ pc[i] = "done"
        /\ \E c \in CallsBy(i, { "remove" }) :
              /\ commits[1].tree[c.path] # Absent
              /\ \A k \in CommitsBy(i) : commits[k].tree[c.path] = Absent
        /\ CallsBy(i, { "add" }) # {}

\* C4: no git.add and no git.remove is ever issued for a path whose name
\* contains the noise token.
C4_NoiseNeverStaged ==
    \A c \in calls : c.fn \in StageFns => ~IsNoise(c.path)

\* A Done invocation that was given noise rows of both subdirectories, one
\* of them for a file missing from the working tree.
C4_Witness ==
    \E i \in Inv :
        /\ pc[i] = "done"
        /\ \A sub \in { "public", "content" } :
              \E r \in rows[i] : r.sub = sub /\ IsNoise(r.row[1]) /\ r.row[3] = 0


\* The phases of an invocation and the order of its program points.
PhaseOf(p) ==
    CASE p = "idle" -> "Idle"
      [] p \in StatusPcs \cup StagePcs -> "Staging"
      [] p = "commit" -> "Committing"
      [] p = "push" -> "Pushing"
      [] p = "done" -> "Done"
      [] OTHER -> "Failed"

PcOrder == << "idle", "statusPublic", "stagePublic", "statusContent", "stageContent",
              "commit", "push", "done" >>
PhaseOrder == << "Idle", "Staging", "Committing", "Pushing", "Done" >>
PlaceIn(seq, x) == CHOOSE k \in DOMAIN seq : seq[k] = x

StepAllowed(p, q) ==
    IF q = "failed"
    THEN PhaseOf(p) \in { "Staging", "Committing", "Pushing" }
    ELSE /\ p # "failed"
         /\ PlaceIn(PcOrder, q) > PlaceIn(PcOrder, p)
         /\ PlaceIn(PhaseOrder, PhaseOf(q)) - PlaceIn(PhaseOrder, PhaseOf(p)) \in { 0, 1 }

FailureIsFinal(i) ==
    /\ HasNotice(i, StagingPrefix) =>
          pc[i] = "failed" /\ CallsBy(i, { "commit", "push" }) = {}
    /\ HasNotice(i, CommitPrefix) =>
          pc[i] = "failed" /\ CallsBy(i, { "push" }) = {}
    /\ HasNotice(i, PushPrefix) => pc[i] = "failed"
    /\ pc[i] = "failed" =>
          /\ notices[i][Len(notices[i])].msg \in FailurePrefixes
          /\ ret[i] = notices[i][Len(notices[i])].arg
          /\ ret[i] # NoValue
    /\ pc[i] # "failed" => ret[i] = NoValue

\* C5: an invocation only moves forward along Idle, Staging, Committing,
\* Pushing, Done, or from a step to Failed, where it stays; after a staging
\* failure it has issued neither commit nor push, after a commit failure no
\* push, and a Failed invocation has returned the error it caught.
C5_StateMachine ==
    [][ \A i \in Inv :
          /\ pc'[i] # pc[i] => StepAllowed(pc[i], pc'[i])
          /\ FailureIsFinal(i)' ]_vars

\* One invocation failed in its commit step, another in staging.
C5_Witness ==
    \E i, j \in Inv :
        /\ pc[i] = "failed" /\ HasNotice(i, CommitPrefix)
        /\ pc[j] = "failed" /\ HasNotice(j, StagingPrefix)

PrefixOf(fn) ==
    CASE fn = "commit" -> CommitPrefix
      [] fn = "push" -> PushPrefix
      [] OTHER -> StagingPrefix

\* C6: the start notice comes before any git call; after it there is at most
\* one more notice, either the failure notice of the step that failed (with
\* the long display time) or the success notice naming the repository; the
\* success notice is shown only by an invocation whose push has succeeded.
C6_Notices ==
    \A i \in Inv :
        /\ pc[i] = "idle" <=> notices[i] = <<>>
        /\ CallsBy(i, GitFns) # {} => notices[i] # <<>>
        /\ notices[i] # <<>> => notices[i][1] = StartNotice
        /\ Len(notices[i]) <= 2
        /\ Len(notices[i]) = 2 <=> pc[i] \in { "done", "failed" }
        /\ Len(notices[i]) = 2 =>
              LET n == notices[i][2]
              IN  IF n.msg = SuccessPrefix
                  THEN /\ pc[i] = "done"
                       /\ n = Notice(SuccessPrefix, Err("repo", <<cfg[i].REPO>>), DefaultNoticeMs)
                       /\ CallsBy(i, { "push" }) # {}
                       /\ CommitsBy(i) # {}
                       /\ \A k \in CommitsBy(i) : k <= remote
                  ELSE /\ pc[i] = "failed"
                       /\ n.ms = FailureNoticeMs
                       /\ n.arg.fn \in GitFns
                       /\ n.msg = PrefixOf(n.arg.fn)
                       /\ CallsBy(i, { n.arg.fn }) # {}
                       /\ n.msg = StagingPrefix => CallsBy(i, { "commit", "push" }) = {}
                       /\ n.msg = CommitPrefix => CallsBy(i, { "push" }) = {}

\* One invocation showed the success notice, another a push failure.
C6_Witness ==
    \E i, j \in Inv :
        /\ HasNotice(i, SuccessPrefix)
        /\ HasNotice(j, PushPrefix)

\* C7, as the specification states it: no two invocations are in flight at
\* the same time.
C7_OneInFlight ==
    \A i, j \in Inv : i # j => ~(InFlight(i) /\ InFlight(j))

\* C8: the calls of one subdirectory are all issued when its status
\* arrives; a rejected call makes the invocation Failed with the staging
\* notice and without a commit; the calls already issued are not dropped:
\* each is still pending or has settled.
C8_FirstRejectionWins ==
    /\ \A i \in Inv : \A p \in ReportedPaths(i) :
          \E c \in CallsBy(i, StageFns) : c.path = p
    /\ \A t \in settled : ~t.ok =>
          /\ pc[t.by] = "failed"
          /\ HasNotice(t.by, StagingPrefix)
          /\ ret[t.by].fn \in StageFns
          /\ CallsBy(t.by, { "commit", "push" }) = {}
    /\ \A i \in Inv : \A c \in CallsBy(i, StageFns) :
          \/ [ fn |-> c.fn, path |-> c.path ] \in pending[i]
          \/ \E t \in settled : t.by = i /\ t.fn = c.fn /\ t.path = c.path

\* A call of an invocation that had already Failed completed and changed the
\* index.
C8_Witness ==
    \E t \in settled :
        /\ t.late
        /\ pc[t.by] = "failed"
        /\ ret[t.by].fn \in StageFns
        /\ ret[t.by].at # t.path
        /\ ret[t.by].at[1] = t.path[1]

\* C9: every git call, commit and success notice of an invocation uses the
\* settings as they were when it started; a settings edit changes nothing of
\* an invocation, and no step of an invocation changes the settings.
C9_ConfigReadOnce ==
    [][ /\ \A c \in calls' : c.cfg = ReadCfg(atStart'[c.by].settings)
        /\ \A k \in DOMAIN commits' : commits'[k].by \in Inv =>
              /\ commits'[k].name = atStart'[commits'[k].by].settings.nameOfCommit
              /\ commits'[k].email = atStart'[commits'[k].by].settings.emailOfCommit
        /\ \A i \in Inv : \A k \in DOMAIN notices'[i] :
              notices'[i][k].msg = SuccessPrefix =>
                  notices'[i][k].arg = Err("repo", <<atStart'[i].settings.githubRepoUrl>>)
        /\ \A i \in Inv : pc[i] # "idle" => cfg'[i] = cfg[i] /\ atStart'[i] = atStart[i]
        /\ settings' # settings => UNCHANGED << repoVars, invVars, histVars >>
        /\ << repoVars, invVars, histVars >>' # << repoVars, invVars, histVars >> =>
              UNCHANGED << settings, data >> ]_vars

\* An invocation is about to push with constants that the settings no longer
\* hold.
C9_Witness ==
    \E i \in Inv :
        /\ pc[i] = "push"
        /\ cfg[i].NAME # settings.nameOfCommit \/ cfg[i].REPO # settings.githubRepoUrl
        /\ \E k \in CommitsBy(i) : commits[k].name = cfg[i].NAME

InSubdir(c, sub) == c.path # <<>> /\ c.path[1] = sub

\* C10: an invocation asks for the status of 'content', and issues calls for
\* it, only after every call it issued for 'public' has completed
\* successfully; when the status of 'public' or one of its calls fails, the
\* invocation issues nothing for 'content'.
C10_PublicBeforeContent ==
    \A i \in Inv :
        LET forContent == { c \in CallsBy(i, GitFns) : InSubdir(c, "content") }
            forPublic  == { c \in CallsBy(i, StageFns) : InSubdir(c, "public") }
        IN  /\ forContent # {} =>
                  /\ \E r \in rows[i] : r.sub = "public"
                  /\ \A c \in forPublic :
                        /\ [ fn |-> c.fn, path |-> c.path ] \notin pending[i]
                        /\ \A t \in settled : t.by = i /\ t.path = c.path => t.ok
            /\ \/ ret[i] = Err("statusMatrix", <<"public">>)
               \/ \E t \in settled : t.by = i /\ ~t.ok /\ t.path[1] = "public"
               => forContent = {}
            /\ \A c \in forContent : c.fn \in StageFns =>
                  \E d \in forContent : d.fn = "statusMatrix"

\* A Done invocation that staged files of both subdirectories.
C10_Witness ==
    \E i \in Inv :
        /\ pc[i] = "done"
        /\ \E c \in CallsBy(i, StageFns) : InSubdir(c, "public")
        /\ \E c \in CallsBy(i, StageFns) : InSubdir(c, "content")

====
